---- MODULE Spec2Model ----
(***************************************************************************)
(* A model of the pen-input state machine of the flashcards drawing        *)
(* program (src/src/main.rs) and of its stripped-down sibling              *)
(* (src/src/basic_draw.rs).                                                *)
(*                                                                         *)
(* Numbers.  Positions are pixel coordinates; the test positions are       *)
(* integral, so the f32 midpoints are exact and are kept in half-pixel     *)
(* units (PointScale).  A radius (mult * pressure / 2048) / 2 is a dyadic  *)
(* rational whose numerator stays far below 2^24 for mult <= 297 and       *)
(* pressure <= 4095, so single precision computes it exactly; radii and    *)
(* widths are kept in units of 1 / RadiusScale.                            *)
(*                                                                         *)
(* Ghost state.  `event` is the event handled last, with the draw mode,    *)
(* the window length and the pending-activation flag it found (`pre`);     *)
(* `calls` lists the calls the handler issued while handling it (renders,  *)
(* refreshes, element handlers); the `stale` field of a sample says that   *)
(* the sample was received before the last stroke-breaking event.  None of *)
(* them is read by the modelled code, nor is `applied`, the draw mode that *)
(* results from applying the completed mode updates one after the other,   *)
(* nor are the tallies `hovers` and `activations`, which only the          *)
(* specification SpecTaps keeps.                                           *)
(***************************************************************************)
EXTENDS Integers, Sequences, FiniteSets

VARIABLES
    program,            \* which binary runs: "main" or "basic_draw"
    WACOM_HISTORY,      \* the stroke window (VecDeque), oldest first
    G_DRAW_MODE,        \* main: [kind, size]
    UNPRESS_OBSERVED,   \* main: pending activation
    WACOM_IN_RANGE,     \* main
    WACOM_RUBBER_SIDE,  \* main
    tool_pen,           \* basic_draw: local of main()
    tool_rubber,        \* basic_draw: local of main()
    panicked,           \* the handler hit unreachable!()
    exited,             \* main: std::process::exit(0) was called
    new_mode,           \* on_toggle_eraser's local, per thread inside it
    applied,            \* ghost: the mode updates so far, applied one by one
    hovers,             \* ghost: Hover events with distance > 1 so far
    activations,        \* ghost: element handler calls so far
    event,              \* ghost: the event handled last
    calls               \* ghost: the calls issued while handling it

vars == <<program, WACOM_HISTORY, G_DRAW_MODE, UNPRESS_OBSERVED, WACOM_IN_RANGE,
          WACOM_RUBBER_SIDE, tool_pen, tool_rubber, panicked, exited, new_mode,
          applied, hovers, activations, event, calls>>

mainVars == <<G_DRAW_MODE, UNPRESS_OBSERVED, WACOM_IN_RANGE, WACOM_RUBBER_SIDE>>
basicVars == <<tool_pen, tool_rubber>>
threadVars == <<exited, new_mode>>
tallyVars == <<hovers, activations>>

-----------------------------------------------------------------------------
(* Fixed-point units *)

\* radii and widths are numerators over 2048 * 2
RadiusScale == 4096
\* anchor points are in half pixels
PointScale == 2

-----------------------------------------------------------------------------
(* DrawMode *)

Draw(s) == [kind |-> "Draw", size |-> s]
Erase(s) == [kind |-> "Erase", size |-> s]

set_sizeSwapsVariant(self, new_size) ==
    IF self.kind = "Draw" THEN Erase(new_size) ELSE Draw(new_size)

set_size(self, new_size) ==
    IF self.kind = "Draw" THEN Draw(new_size) ELSE Erase(new_size)

get_size(self) == self.size

-----------------------------------------------------------------------------
(* Geometry *)

CANVAS_REGION == [top |-> 720, left |-> 0, height |-> 1080, width |-> 1404]

contains_point(rect, p) ==
    /\ rect.left <= p.x /\ p.x < rect.left + rect.width
    /\ rect.top <= p.y /\ p.y < rect.top + rect.height

\* cgmath midpoint (a + b) * 0.5, in half pixels
midpoint(a, b) == [x |-> ((a.x + b.x) * PointScale) \div 2,
                   y |-> ((a.y + b.y) * PointScale) \div 2]

\* a sample position used as an anchor as it is, in half pixels
anchor(a) == [x |-> a.x * PointScale, y |-> a.y * PointScale]

-----------------------------------------------------------------------------
(* The interactive elements main() registers.  Only an element with an     *)
(* onclick closure gets an active region; its rectangle is laid out by the *)
(* UI library from the rendered text, so the rectangles here are nominal   *)
(* boxes hanging from the element's position, all above the canvas.        *)

NoElement == "None"

ActiveRegions ==
    { [element |-> "decreaseSizeSkip", delta |-> -10,
       rect |-> [top |-> 630, left |-> 960, height |-> 40, width |-> 50]],
      [element |-> "decreaseSize", delta |-> -1,
       rect |-> [top |-> 630, left |-> 1030, height |-> 40, width |-> 50]],
      [element |-> "increaseSize", delta |-> 1,
       rect |-> [top |-> 630, left |-> 1240, height |-> 40, width |-> 50]],
      [element |-> "increaseSizeSkip", delta |-> 10,
       rect |-> [top |-> 630, left |-> 1295, height |-> 40, width |-> 50]] }

\* app.find_active_region(y, x): the region under the point, if any
find_active_region(y, x) ==
    LET hit == {r \in ActiveRegions : contains_point(r.rect, [x |-> x, y |-> y])}
    IN IF hit = {} THEN NoElement ELSE (CHOOSE r \in hit : TRUE).element

RegionOf(element) == CHOOSE r \in ActiveRegions : r.element = element

-----------------------------------------------------------------------------
(* Tool & mode configuration *)

MinWidth == 1
MaxWidth == 99

clamp(v, lo, hi) == IF v < lo THEN lo ELSE IF v > hi THEN hi ELSE v

\* change_brush_width(app, delta): called by the size buttons' closures; its
\* body is not part of the sources at hand and follows the specification
\* (section 4.4): newWidth = clamp(currentWidth + delta, 1, 99), no-op if
\* unchanged.
change_brush_width(mode, delta) ==
    LET current_size == get_size(mode)
        new_size == clamp(current_size + delta, MinWidth, MaxWidth)
    IN IF new_size = current_size THEN mode ELSE set_size(mode, new_size)

toggledResetsWidth(mode) ==
    IF mode.kind = "Erase" THEN Draw(2) ELSE Erase(mode.size)

\* on_toggle_eraser: the value stored into G_DRAW_MODE
toggled(mode) ==
    IF mode.kind = "Erase" THEN Draw(mode.size) ELSE Erase(mode.size)

-----------------------------------------------------------------------------
(* Color and multiplier of a stroke *)

BLACK == "BLACK"
WHITE == "WHITE"

RUBBER_MULT == 50

BaseColMultIgnoresRubber(mode, rubber_side) ==
    IF mode.kind = "Draw"
    THEN [col |-> BLACK, mult |-> mode.size]
    ELSE [col |-> WHITE, mult |-> mode.size * 3]

ColMultRubberAlwaysWhite(mode, rubber_side) ==
    IF rubber_side
    THEN [col |-> WHITE, mult |-> RUBBER_MULT]
    ELSE BaseColMultIgnoresRubber(mode, rubber_side)

ColMultEraseNotWidened(mode, rubber_side) ==
    IF rubber_side
    THEN [col |-> IF mode.kind = "Erase" THEN BLACK ELSE WHITE, mult |-> RUBBER_MULT]
    ELSE [col |-> IF mode.kind = "Draw" THEN BLACK ELSE WHITE, mult |-> mode.size]

\* main.rs: (col, mult) from the stored mode, then the rubber-side override
ColMult(mode, rubber_side) ==
    LET base == IF mode.kind = "Draw"
                THEN [col |-> BLACK, mult |-> mode.size]
                ELSE [col |-> WHITE, mult |-> mode.size * 3]
    IN IF rubber_side
       THEN [col |-> IF base.col = WHITE THEN BLACK ELSE WHITE,
             mult |-> RUBBER_MULT]
       ELSE base

\* basic_draw.rs: fixed color and multiplier
BASIC_MULT == 4
BasicColMult == [col |-> BLACK, mult |-> BASIC_MULT]

PRESSURE_DIVISOR == 2048

RadiusDecreasing(mult, pressure) ==
    ((mult * (PRESSURE_DIVISOR - pressure)) * (RadiusScale \div PRESSURE_DIVISOR)) \div 2

\* ((mult as f32 * (pressure as f32) / 2048.) / 2.0), in 1 / RadiusScale: the
\* division by 2048 is exact in these units (RadiusScale is a multiple of it)
Radius(mult, pressure) ==
    ((mult * pressure) * (RadiusScale \div PRESSURE_DIVISOR)) \div 2

-----------------------------------------------------------------------------
(* The stroke window and the render loop *)

Sample(position, pressure) ==
    [position |-> position, pressure |-> pressure, stale |-> FALSE]

\* ghost: the samples now in the window were received before a stroke break
MarkStale(stack) == [i \in DOMAIN stack |-> [stack[i] EXCEPT !.stale = TRUE]]

clearKeepsSamples(stack) == stack

\* VecDeque::clear
clear(stack) == << >>

push_backAtFront(stack, sample) == <<sample>> \o stack

\* VecDeque::push_back
push_back(stack, sample) == Append(stack, sample)

Min2(a, b) == IF a < b THEN a ELSE b
Max2(a, b) == IF a > b THEN a ELSE b

\* The rectangle draw_dynamic_bezier returns is computed by the framebuffer
\* library from the pixels it touched; here it is the bounding box of the three
\* anchors (half pixels), which is all the handler could tell two rectangles
\* apart by.
BoundingRect(start, ctrl, end) ==
    LET l == Min2(start.point.x, Min2(ctrl.point.x, end.point.x))
        r == Max2(start.point.x, Max2(ctrl.point.x, end.point.x))
        t == Min2(start.point.y, Min2(ctrl.point.y, end.point.y))
        b == Max2(start.point.y, Max2(ctrl.point.y, end.point.y))
    IN [top |-> t, left |-> l, height |-> b - t, width |-> r - l]

BEZIER_SAMPLES == 10

\* framebuffer.draw_dynamic_bezier(start, ctrl, end, 10, col); `points` is ghost
draw_dynamic_bezier(start, ctrl, end, samples, col, points) ==
    [fn |-> "draw_dynamic_bezier", start |-> start, ctrl |-> ctrl, end |-> end,
     samples |-> samples, color |-> col, points |-> points,
     rect |-> BoundingRect(start, ctrl, end)]

\* framebuffer.partial_refresh(&rect, mode, waveform, temp, dither, quant, wait)
partial_refresh(rect, mode, waveform, temp, dither, quant, wait) ==
    [fn |-> "partial_refresh", rect |-> rect, mode |-> mode, waveform |-> waveform,
     temp |-> temp, dither |-> dither, quant |-> quant, wait_for_completion |-> wait]

RefreshCanvas(rendered) ==
    partial_refresh(CANVAS_REGION, "Async", "WAVEFORM_MODE_DU",
                    "TEMP_USE_REMARKABLE_DRAW", "EPDC_FLAG_EXP1",
                    "DRAWING_QUANT_BIT", FALSE)

\* the refresh that follows a render
Refresh(rendered) ==
    partial_refresh(rendered.rect, "Async", "WAVEFORM_MODE_DU",
                    "TEMP_USE_REMARKABLE_DRAW", "EPDC_FLAG_EXP1",
                    "DRAWING_QUANT_BIT", FALSE)

SegmentReversed(points, mult, col) ==
    LET radii == [i \in 1..3 |-> Radius(mult, points[i].pressure)]
    IN draw_dynamic_bezier(
           [point |-> midpoint(points[1].position, points[2].position),
            width |-> radii[1] + radii[2]],
           [point |-> anchor(points[2].position), width |-> radii[2] * 2],
           [point |-> midpoint(points[2].position, points[3].position),
            width |-> radii[2] + radii[3]],
           BEZIER_SAMPLES, col, points)

\* One segment from the triple points = <<oldest, middle, newest>>, which is
\* the code's points[0], points[1], points[2].
Segment(points, mult, col) ==
    LET radii == [i \in 1..3 |-> Radius(mult, points[i].pressure)]
        start_point == midpoint(points[3].position, points[2].position)
        ctrl_point == anchor(points[2].position)
        end_point == midpoint(points[2].position, points[1].position)
        start_width == radii[3] + radii[2]
        ctrl_width == radii[2] * 2
        end_width == radii[2] + radii[1]
    IN draw_dynamic_bezier([point |-> start_point, width |-> start_width],
                           [point |-> ctrl_point, width |-> ctrl_width],
                           [point |-> end_point, width |-> end_width],
                           BEZIER_SAMPLES, col, points)

RenderLoopKeepsOldest(stack, col, mult, log) ==
    IF Len(stack) >= 3
    THEN LET rendered == Segment(SubSeq(stack, 1, 3), mult, col)
         IN [stack |-> stack, calls |-> log \o <<rendered, Refresh(rendered)>>]
    ELSE [stack |-> stack, calls |-> log]

\* while wacom_stack.len() >= 3 { pop_front, get(0), get(1), render, refresh }
RECURSIVE RenderLoop(_, _, _, _)
RenderLoop(stack, col, mult, log) ==
    IF Len(stack) >= 3
    THEN LET popped == Tail(stack)
             points == <<Head(stack), popped[1], popped[2]>>
             rendered == Segment(points, mult, col)
         IN RenderLoop(popped, col, mult, log \o <<rendered, Refresh(rendered)>>)
    ELSE [stack |-> stack, calls |-> log]

-----------------------------------------------------------------------------
(* Inputs *)

Pt(x, y) == [x |-> x, y |-> y]

\* Pen positions are non-negative device coordinates (position.cast().unwrap()
\* would panic on others).  Positions inside CANVAS_REGION:
CanvasPoints == {Pt(100, 800), Pt(300, 1000)}

\* positions above the canvas: one over each size button, one over the
\* displaySize text (no onclick), one over nothing
OutsidePoints == {Pt(970, 650), Pt(1040, 650), Pt(1100, 650), Pt(1250, 650),
                  Pt(1300, 650), Pt(500, 300)}

Positions == CanvasPoints \cup OutsidePoints

\* the pen pressure of the event-machine runs, and the pressures of the
\* stroke-geometry runs (device range 0..2048 as in the specification)
Pressures == {1000}
StrokePressures == {0, 500, 1000, 1500, 2048}

Distances == {0, 1, 2}

\* WacomPen: the two tool ends, the contact signal, and a pen button
Pens == {"ToolPen", "ToolRubber", "Touch", "Stylus"}

\* deltas of direct change_brush_width calls
Deltas == {-5, 5}

\* the largest brush width the stroke-geometry runs step up to
MaxStrokeWidth == 4

\* the event-dispatch thread and a second thread sharing G_DRAW_MODE
Threads == {"event", "other"}

\* new_mode of a thread that is not inside on_toggle_eraser
Idle == [kind |-> "Idle", size |-> 0]

-----------------------------------------------------------------------------
(* Atomics *)

fetch_andKeeps(flag, v) == flag

fetch_andSetsFlag(flag, v) == TRUE

\* AtomicBool::fetch_and(v): the value stored (the previous one is returned)
fetch_and(flag, v) == flag /\ v

-----------------------------------------------------------------------------
(* Initial state: the statics' initializers, main()'s locals *)

Init ==
    /\ program \in {"main", "basic_draw"}
    /\ WACOM_HISTORY = << >>
    /\ G_DRAW_MODE = Draw(2)
    /\ UNPRESS_OBSERVED = FALSE
    /\ WACOM_IN_RANGE = FALSE
    /\ WACOM_RUBBER_SIDE = FALSE
    /\ tool_pen = FALSE
    /\ tool_rubber = FALSE
    /\ panicked = FALSE
    /\ exited = FALSE
    /\ new_mode = [t \in Threads |-> Idle]
    /\ applied = Draw(2)
    /\ hovers = 0
    /\ activations = 0
    /\ event = [type |-> "none"]
    /\ calls = << >>

-----------------------------------------------------------------------------
(* main.rs: on_wacom_input *)

Running(p) == program = p /\ ~panicked /\ ~exited

\* ghost: what the handler finds when the event arrives
Pre == [mode |-> G_DRAW_MODE, window |-> Len(WACOM_HISTORY),
        observed |-> UNPRESS_OBSERVED]

InCanvasAlways(position) == TRUE

\* CANVAS_REGION.contains_point(&position.cast().unwrap())
InCanvas(position) == contains_point(CANVAS_REGION, position)

\* WacomEvent::Draw { position, pressure, tilt: _ }
OnWacomDraw(position, pressure) ==
    /\ Running("main")
    /\ event' = [type |-> "Draw", position |-> position, pressure |-> pressure,
                 pre |-> Pre]
    /\ IF ~InCanvas(position)
       THEN LET observed == UNPRESS_OBSERVED
                element == find_active_region(position.y, position.x)
            IN /\ WACOM_HISTORY' = clear(MarkStale(WACOM_HISTORY))
               /\ UNPRESS_OBSERVED' = fetch_and(UNPRESS_OBSERVED, FALSE)
               /\ IF observed /\ element # NoElement
                  THEN /\ calls' = <<[fn |-> "handler", element |-> element]>>
                       /\ G_DRAW_MODE' =
                              change_brush_width(G_DRAW_MODE, RegionOf(element).delta)
                       /\ applied' =
                              change_brush_width(applied, RegionOf(element).delta)
                  ELSE /\ calls' = << >>
                       /\ UNCHANGED <<G_DRAW_MODE, applied>>
               /\ UNCHANGED <<WACOM_IN_RANGE, WACOM_RUBBER_SIDE>>
       ELSE LET cm == ColMult(G_DRAW_MODE, WACOM_RUBBER_SIDE)
                pushed == push_back(WACOM_HISTORY, Sample(position, pressure))
                done == RenderLoop(pushed, cm.col, cm.mult, << >>)
            IN /\ WACOM_HISTORY' = done.stack
               /\ calls' = done.calls
               /\ UNCHANGED <<mainVars, applied>>
    /\ UNCHANGED <<program, basicVars, panicked, threadVars>>

PenArmOtherIsTouch(pen) ==
    IF pen \in {"ToolPen", "ToolRubber"} THEN pen ELSE "Touch"

\* match pen { ToolPen, ToolRubber, Touch, _ => unreachable!() }: the arm taken
PenArm(pen) ==
    IF pen \in {"ToolPen", "ToolRubber", "Touch"} THEN pen ELSE "unreachable"

\* WacomEvent::InstrumentChange { pen, state }
OnWacomInstrumentChange(pen, state) ==
    /\ Running("main")
    /\ event' = [type |-> "InstrumentChange", pen |-> pen, state |-> state,
                 pre |-> Pre]
    /\ calls' = << >>
    /\ CASE PenArm(pen) = "ToolPen" ->
              /\ WACOM_IN_RANGE' = state
              /\ WACOM_RUBBER_SIDE' = FALSE
              /\ UNCHANGED <<WACOM_HISTORY, panicked>>
         [] PenArm(pen) = "ToolRubber" ->
              /\ WACOM_IN_RANGE' = state
              /\ WACOM_RUBBER_SIDE' = TRUE
              /\ UNCHANGED <<WACOM_HISTORY, panicked>>
         [] PenArm(pen) = "Touch" ->
              /\ WACOM_HISTORY' = IF ~state THEN clear(MarkStale(WACOM_HISTORY))
                                            ELSE WACOM_HISTORY
              /\ UNCHANGED <<WACOM_IN_RANGE, WACOM_RUBBER_SIDE, panicked>>
         [] OTHER ->
              \* unreachable!()
              /\ panicked' = TRUE
              /\ UNCHANGED <<WACOM_HISTORY, WACOM_IN_RANGE, WACOM_RUBBER_SIDE>>
    /\ UNCHANGED <<program, G_DRAW_MODE, UNPRESS_OBSERVED, basicVars, threadVars,
                   applied>>

HoverLiftedAtOne(distance) == distance >= 1

\* if distance > 1
HoverLifted(distance) == distance > 1

\* WacomEvent::Hover { position: _, distance, tilt: _ }
OnWacomHover(distance) ==
    /\ Running("main")
    /\ event' = [type |-> "Hover", distance |-> distance, pre |-> Pre]
    /\ calls' = << >>
    /\ IF HoverLifted(distance)
       THEN /\ WACOM_HISTORY' = clear(MarkStale(WACOM_HISTORY))
            /\ UNPRESS_OBSERVED' = TRUE
       ELSE UNCHANGED <<WACOM_HISTORY, UNPRESS_OBSERVED>>
    /\ UNCHANGED <<program, G_DRAW_MODE, WACOM_IN_RANGE, WACOM_RUBBER_SIDE,
                   basicVars, panicked, threadVars, applied>>

\* any other WacomEvent variant: _ => {}
OnWacomOther ==
    /\ Running("main")
    /\ event' = [type |-> "Unknown", pre |-> Pre]
    /\ calls' = << >>
    /\ UNCHANGED <<program, WACOM_HISTORY, mainVars, basicVars, panicked,
                   threadVars, applied>>

\* on_toggle_eraser(app, _): an element handler by its signature; main()
\* registers it with no element, so it is modelled as an operation of its own
OnToggleEraser ==
    /\ Running("main")
    /\ event' = [type |-> "toggleEraser", again |-> event.type = "toggleEraser",
                 pre |-> Pre]
    /\ calls' = << >>
    /\ G_DRAW_MODE' = toggled(G_DRAW_MODE)
    /\ applied' = toggled(applied)
    /\ UNCHANGED <<program, WACOM_HISTORY, UNPRESS_OBSERVED, WACOM_IN_RANGE,
                   WACOM_RUBBER_SIDE, basicVars, panicked, threadVars>>

\* change_brush_width(app, delta), called directly
ChangeBrushWidth(delta) ==
    /\ Running("main")
    /\ event' = [type |-> "setWidth", delta |-> delta, pre |-> Pre]
    /\ calls' = << >>
    /\ G_DRAW_MODE' = change_brush_width(G_DRAW_MODE, delta)
    /\ applied' = change_brush_width(applied, delta)
    /\ UNCHANGED <<program, WACOM_HISTORY, UNPRESS_OBSERVED, WACOM_IN_RANGE,
                   WACOM_RUBBER_SIDE, basicVars, panicked, threadVars>>

-----------------------------------------------------------------------------
(* main.rs: on_button_press *)

GPIOKinds == {"Press", "Unpress", "Unknown"}
Buttons == {"LEFT", "MIDDLE", "RIGHT", "POWER", "WAKEUP"}

ButtonFilteredIgnoresRange(new_state, in_range) == ~new_state

\* the two early returns: the unpressed event, and a press while the pen is in
\* range
ButtonFiltered(new_state, in_range) == ~new_state \/ in_range

\* match btn: the calls of each arm (quick_redraw, full_redraw and toggle_touch
\* are called by name; their bodies are not part of the sources at hand)
ButtonCalls(btn) ==
    CASE btn = "LEFT" -> <<[fn |-> "quick_redraw"]>>
      [] btn = "MIDDLE" -> <<[fn |-> "full_redraw"]>>
      [] btn = "RIGHT" -> <<[fn |-> "toggle_touch"]>>
      [] btn = "POWER" -> <<[fn |-> "Command::spawn"], [fn |-> "process::exit"]>>
      [] btn = "WAKEUP" -> <<[fn |-> "println"]>>

\* on_button_press(app, input)
OnButtonPress(kind, button) ==
    /\ Running("main")
    /\ event' = [type |-> "GPIO", kind |-> kind, button |-> button, pre |-> Pre]
    /\ IF kind = "Unknown" \/ ButtonFiltered(kind = "Press", WACOM_IN_RANGE)
       THEN /\ calls' = << >>
            /\ UNCHANGED exited
       ELSE /\ calls' = ButtonCalls(button)
            /\ exited' = (button = "POWER")
    /\ UNCHANGED <<program, WACOM_HISTORY, mainVars, basicVars, panicked, new_mode,
                   applied>>

-----------------------------------------------------------------------------
(* main.rs: on_toggle_eraser, statement by statement, run by several threads *)

\* let (new_mode, name) = match G_DRAW_MODE.load(Ordering::Relaxed) { .. };
ToggleLoad(t) ==
    /\ Running("main")
    /\ new_mode[t] = Idle
    /\ event' = [type |-> "toggleLoad", thread |-> t, pre |-> Pre]
    /\ calls' = << >>
    /\ new_mode' = [new_mode EXCEPT ![t] = toggled(G_DRAW_MODE)]
    /\ UNCHANGED <<program, WACOM_HISTORY, mainVars, basicVars, panicked, exited,
                   applied>>

\* G_DRAW_MODE.store(new_mode, Ordering::Relaxed); then the indicator redraw
ToggleStore(t) ==
    /\ Running("main")
    /\ new_mode[t] # Idle
    /\ event' = [type |-> "toggleStore", thread |-> t, pre |-> Pre]
    /\ calls' = << >>
    /\ G_DRAW_MODE' = new_mode[t]
    /\ applied' = toggled(applied)
    /\ new_mode' = [new_mode EXCEPT ![t] = Idle]
    /\ UNCHANGED <<program, WACOM_HISTORY, UNPRESS_OBSERVED, WACOM_IN_RANGE,
                   WACOM_RUBBER_SIDE, basicVars, panicked, exited>>

-----------------------------------------------------------------------------
(* basic_draw.rs: the event-loop closure of main() *)

\* WacomEvent::InstrumentChange { pen, state }
BasicInstrumentChange(pen, state) ==
    /\ Running("basic_draw")
    /\ event' = [type |-> "InstrumentChange", pen |-> pen, state |-> state,
                 pre |-> Pre]
    /\ calls' = << >>
    /\ tool_pen' = IF pen = "ToolPen" THEN state ELSE tool_pen
    /\ tool_rubber' = IF pen = "ToolRubber" THEN state ELSE tool_rubber
    /\ UNCHANGED <<program, WACOM_HISTORY, mainVars, panicked, threadVars, applied>>

\* WacomEvent::Draw { position, pressure, tilt: _ }
BasicDraw(position, pressure) ==
    /\ Running("basic_draw")
    /\ event' = [type |-> "Draw", position |-> position, pressure |-> pressure,
                 pre |-> Pre]
    /\ LET pushed == push_back(WACOM_HISTORY, Sample(position, pressure))
           done == RenderLoop(pushed, BasicColMult.col, BasicColMult.mult, << >>)
       IN /\ WACOM_HISTORY' = done.stack
          /\ calls' = done.calls
    /\ UNCHANGED <<program, mainVars, basicVars, panicked, threadVars, applied>>

\* Hover and every other WacomEvent variant: _ => {}
BasicOther(distance) ==
    /\ Running("basic_draw")
    /\ event' = [type |-> "Hover", distance |-> distance, pre |-> Pre]
    /\ calls' = << >>
    /\ UNCHANGED <<program, WACOM_HISTORY, mainVars, basicVars, panicked,
                   threadVars, applied>>

-----------------------------------------------------------------------------
(* Specifications *)

\* The event machine: every event kind at every position, one pressure.
Next ==
    \/ /\ \E position \in Positions, pressure \in Pressures :
              OnWacomDraw(position, pressure)
       /\ UNCHANGED tallyVars
    \/ /\ \E pen \in Pens, state \in BOOLEAN : OnWacomInstrumentChange(pen, state)
       /\ UNCHANGED tallyVars
    \/ /\ \E distance \in Distances : OnWacomHover(distance)
       /\ UNCHANGED tallyVars
    \/ /\ OnWacomOther
       /\ UNCHANGED tallyVars
    \/ /\ OnToggleEraser
       /\ UNCHANGED tallyVars
    \/ /\ \E delta \in Deltas : ChangeBrushWidth(delta)
       /\ UNCHANGED tallyVars
    \/ /\ \E pen \in Pens, state \in BOOLEAN : BasicInstrumentChange(pen, state)
       /\ UNCHANGED tallyVars
    \/ /\ \E position \in Positions, pressure \in Pressures :
              BasicDraw(position, pressure)
       /\ UNCHANGED tallyVars
    \/ /\ \E distance \in Distances : BasicOther(distance)
       /\ UNCHANGED tallyVars

Spec == Init /\ [][Next]_vars

\* Stroke geometry: in-canvas strokes at every pressure; the brush is stepped
\* up with the "+" button while it is narrower than MaxStrokeWidth.
IncreaseSizePoint == Pt(1250, 650)

NextStroke ==
    \/ /\ \E position \in CanvasPoints, pressure \in StrokePressures :
              OnWacomDraw(position, pressure)
       /\ UNCHANGED tallyVars
    \/ /\ G_DRAW_MODE.size < MaxStrokeWidth
       /\ \E pressure \in Pressures : OnWacomDraw(IncreaseSizePoint, pressure)
       /\ UNCHANGED tallyVars
    \/ /\ \E distance \in {2} : OnWacomHover(distance)
       /\ UNCHANGED tallyVars
    \/ /\ \E pen \in {"ToolPen", "ToolRubber"} : OnWacomInstrumentChange(pen, TRUE)
       /\ UNCHANGED tallyVars
    \/ /\ OnToggleEraser
       /\ UNCHANGED tallyVars
    \/ /\ \E position \in CanvasPoints, pressure \in StrokePressures :
              BasicDraw(position, pressure)
       /\ UNCHANGED tallyVars

SpecStroke == Init /\ [][NextStroke]_vars

\* Physical buttons against the pen's range flag.
NextButtons ==
    \/ /\ \E kind \in GPIOKinds, button \in Buttons : OnButtonPress(kind, button)
       /\ UNCHANGED tallyVars
    \/ /\ \E pen \in Pens, state \in BOOLEAN : OnWacomInstrumentChange(pen, state)
       /\ UNCHANGED tallyVars
    \/ /\ \E position \in CanvasPoints, pressure \in Pressures :
              OnWacomDraw(position, pressure)
       /\ UNCHANGED tallyVars
    \/ /\ \E distance \in Distances : OnWacomHover(distance)
       /\ UNCHANGED tallyVars

SpecButtons == Init /\ [][NextButtons]_vars

\* Two threads inside on_toggle_eraser, statement by statement; the event
\* thread changes the width only between two of its own handlers, and only
\* while the brush is narrower than MaxStrokeWidth.
NextThreads ==
    \/ /\ \E t \in Threads : ToggleLoad(t)
       /\ UNCHANGED tallyVars
    \/ /\ \E t \in Threads : ToggleStore(t)
       /\ UNCHANGED tallyVars
    \/ /\ new_mode["event"] = Idle
       /\ G_DRAW_MODE.size < MaxStrokeWidth
       /\ \E delta \in Deltas : ChangeBrushWidth(delta)
       /\ UNCHANGED tallyVars

SpecThreads == Init /\ [][NextThreads]_vars

\* Taps and hovers, tallied: every wacom event of main, the taps on the two
\* "-" buttons, beside them and off every element; at most MaxHovers hovers
\* with distance > 1.
MaxHovers == 3

TapPoints == {Pt(970, 650), Pt(1040, 650), Pt(1100, 650), Pt(500, 300)}

\* the step just taken, added to the tallies
Tally ==
    /\ hovers' = hovers + (IF event'.type = "Hover" /\ event'.distance > 1
                           THEN 1 ELSE 0)
    /\ activations' =
           activations + Cardinality({i \in DOMAIN calls' : calls'[i].fn = "handler"})

NextTaps ==
    \/ /\ \E position \in CanvasPoints \cup TapPoints, pressure \in Pressures :
              OnWacomDraw(position, pressure)
       /\ Tally
    \/ /\ \E pen \in Pens, state \in BOOLEAN : OnWacomInstrumentChange(pen, state)
       /\ Tally
    \/ /\ \E distance \in {0, 1} : OnWacomHover(distance)
       /\ Tally
    \/ /\ hovers < MaxHovers
       /\ \E distance \in {2} : OnWacomHover(distance)
       /\ Tally
    \/ /\ OnWacomOther
       /\ Tally

SpecTaps == Init /\ [][NextTaps]_vars

-----------------------------------------------------------------------------
(* Properties *)

Renders == {i \in DOMAIN calls : calls[i].fn = "draw_dynamic_bezier"}
Refreshes == {i \in DOMAIN calls : calls[i].fn = "partial_refresh"}
Handlers == {i \in DOMAIN calls : calls[i].fn = "handler"}

OutsideDraw(e) == e.type = "Draw" /\ ~contains_point(CANVAS_REGION, e.position)
InsideDraw(e) == e.type = "Draw" /\ contains_point(CANVAS_REGION, e.position)
FarHover(e) == e.type = "Hover" /\ e.distance > 1
TouchLost(e) == e.type = "InstrumentChange" /\ e.pen = "Touch" /\ ~e.state

\* C1: after every event, in main and in basic_draw, the stroke window holds
\* 0, 1 or 2 samples.
C1_WindowAtMostTwo == Len(WACOM_HISTORY) \in {0, 1, 2}

\* a Draw found two samples in the window, rendered, and left two
C1_Witness ==
    /\ program = "basic_draw"
    /\ event.type = "Draw" /\ event.pre.window = 2
    /\ Renders # {} /\ Len(WACOM_HISTORY) = 2

\* C2: a Draw outside CANVAS_REGION issues no draw_dynamic_bezier and no
\* partial_refresh call, whatever the window, the mode and the flags were.
C2_OutsideDrawRendersNothing ==
    (program = "main" /\ OutsideDraw(event)) => Renders = {} /\ Refreshes = {}

\* an outside Draw that found a full window, a pending activation, the rubber
\* side active and a changed mode
C2_Witness ==
    /\ program = "main" /\ OutsideDraw(event)
    /\ event.pre.window = 2 /\ event.pre.observed
    /\ WACOM_RUBBER_SIDE /\ event.pre.mode = Erase(12)

\* C3: Hover(distance > 1) followed immediately by an outside Draw over an
\* interactive element invokes that element's handler exactly once; an outside
\* Draw that immediately follows an outside Draw invokes no handler.
C3_HoverThenTapActivatesOnce ==
    [][(program = "main" /\ OutsideDraw(event'))
         => /\ (FarHover(event)
                  /\ find_active_region(event'.position.y, event'.position.x)
                         # NoElement)
                 => calls' = <<[fn |-> "handler",
                                element |-> find_active_region(event'.position.y,
                                                               event'.position.x)]>>
            /\ OutsideDraw(event) => calls' = << >>]_vars

\* an outside Draw over the "+" button has just activated it
C3_Witness ==
    /\ program = "main" /\ OutsideDraw(event) /\ event.pre.observed
    /\ calls = <<[fn |-> "handler", element |-> "increaseSize"]>>
    /\ ~UNPRESS_OBSERVED

\* C4: in main the window is empty right after Touch(false), Hover(distance > 1)
\* and an outside Draw, so no rendered segment combines a sample received before
\* such an event with one received after it.
C4_StrokeBreakEmptiesWindow ==
    program = "main" =>
        /\ (TouchLost(event) \/ FarHover(event) \/ OutsideDraw(event))
             => WACOM_HISTORY = << >>
        /\ \A i \in Renders : \A j \in 1..3 : ~calls[i].points[j].stale
        /\ \A j \in DOMAIN WACOM_HISTORY : ~WACOM_HISTORY[j].stale

\* the pen was lifted with two samples in the window
C4_Witness ==
    /\ program = "main" /\ TouchLost(event) /\ event.pre.window = 2
    /\ WACOM_HISTORY = << >>

\* C5: with mode Draw(w) and the rubber side active (set by the last
\* ToolPen/ToolRubber change), every segment is WHITE with multiplier 50.
C5_RubberOverDrawIsWhite50 ==
    program = "main" =>
        /\ (event.type = "InstrumentChange" /\ event.pen = "ToolRubber")
             => WACOM_RUBBER_SIDE
        /\ (event.type = "InstrumentChange" /\ event.pen = "ToolPen")
             => ~WACOM_RUBBER_SIDE
        /\ (G_DRAW_MODE.kind = "Draw" /\ WACOM_RUBBER_SIDE) =>
             \A i \in Renders :
                 LET r == [j \in 1..3 |->
                              (50 * calls[i].points[j].pressure * RadiusScale)
                                  \div 4096]
                 IN /\ calls[i].color = WHITE
                    /\ calls[i].start.width = r[3] + r[2]
                    /\ calls[i].ctrl.width = 2 * r[2]
                    /\ calls[i].end.width = r[2] + r[1]

\* a segment rendered with the rubber side over Draw(99)
C5_Witness ==
    /\ program = "main" /\ G_DRAW_MODE = Draw(99) /\ WACOM_RUBBER_SIDE
    /\ Renders # {}

\* C6: one toggleEraser swaps Draw/Erase and keeps the width; a second one
\* right after it restores the mode the first one found.
C6_ToggleTwiceRestores ==
    [][event'.type = "toggleEraser"
         => /\ G_DRAW_MODE'.kind # G_DRAW_MODE.kind
            /\ G_DRAW_MODE'.kind \in {"Draw", "Erase"}
            /\ G_DRAW_MODE'.size = G_DRAW_MODE.size
            /\ event.type = "toggleEraser" => G_DRAW_MODE' = event.pre.mode]_vars

\* the second of two toggles in succession, away from the initial width
C6_Witness ==
    /\ event.type = "toggleEraser" /\ event.again
    /\ event.pre.mode = Draw(7) /\ G_DRAW_MODE = Erase(7)

ClaimedWidth(w, delta) ==
    IF w + delta < 1 THEN 1 ELSE IF w + delta > 99 THEN 99 ELSE w + delta

ButtonDelta(element) ==
    CASE element = "decreaseSizeSkip" -> -10
      [] element = "decreaseSize" -> -1
      [] element = "increaseSize" -> 1
      [] element = "increaseSizeSkip" -> 10

\* C7: setWidth(delta) sets the width to clamp(width + delta, 1, 99) and keeps
\* the variant, for direct calls and for the four size buttons; the width stays
\* in 1..99 from Draw(2) on.
C7_SetWidthClamps ==
    program = "main" =>
        /\ G_DRAW_MODE.size \in 1..99
        /\ event.type = "setWidth" =>
             G_DRAW_MODE = [kind |-> event.pre.mode.kind,
                            size |-> ClaimedWidth(event.pre.mode.size, event.delta)]
        /\ (event.type = "Draw" /\ Handlers # {}) =>
             G_DRAW_MODE = [kind |-> event.pre.mode.kind,
                            size |-> ClaimedWidth(event.pre.mode.size,
                                                  ButtonDelta(calls[1].element))]
        /\ (event.type = "setWidth" /\ event.delta = -5 /\ event.pre.mode.size = 1)
             => G_DRAW_MODE.size = 1
        /\ (event.type = "setWidth" /\ event.delta = 5 /\ event.pre.mode.size = 99)
             => G_DRAW_MODE.size = 99

\* setWidth(+5) at Erase(99)
C7_Witness ==
    /\ event.type = "setWidth" /\ event.delta = 5
    /\ event.pre.mode = Erase(99) /\ G_DRAW_MODE = Erase(99)

\* the multiplier in force for the segments of the last event
ClaimedMult ==
    IF program = "basic_draw" THEN 4
    ELSE IF WACOM_RUBBER_SIDE THEN 50
    ELSE IF G_DRAW_MODE.kind = "Draw" THEN G_DRAW_MODE.size
    ELSE 3 * G_DRAW_MODE.size

Pressure3(call) == [j \in 1..3 |-> call.points[j].pressure]

C9_RenderThenRefresh ==
    /\ \A i \in Renders :
           /\ i + 1 \in Refreshes
           /\ calls[i + 1].rect = calls[i].rect
           /\ calls[i + 1].mode = "Async"
           /\ calls[i + 1].wait_for_completion = FALSE
    /\ \A i \in Refreshes : i - 1 \in Renders
    /\ Cardinality(Renders) = Cardinality(Refreshes)

\* a segment over two different positions was rendered and refreshed
C9_Witness ==
    /\ program = "main"
    /\ Renders = {1} /\ Refreshes = {2}
    /\ calls[1].rect.width > 0 /\ calls[1].rect # CANVAS_REGION

\* the radii of a rendered segment, oldest to newest, recovered from its widths
RadiiOf(call) ==
    LET mid == call.ctrl.width \div 2
    IN <<call.end.width - mid, mid, call.start.width - mid>>

\* C10: for a fixed multiplier m the radius (m*p/2048)/2 does not decrease
\* with the pressure p in [0,2048]; it is 0 at pressure 0 and m/2 at 2048.
C10_RadiusMonotone ==
    \A i \in Renders :
        LET r == RadiiOf(calls[i])
            p == Pressure3(calls[i])
        IN \A j, k \in 1..3 :
               /\ p[j] <= p[k] => r[j] <= r[k]
               /\ p[j] = 0 => r[j] = 0
               /\ p[j] = 2048 => 2 * r[j] = ClaimedMult * RadiusScale

\* a segment over pressures 0, 2048 and one in between, with a wide brush
C10_Witness ==
    /\ program = "main" /\ ClaimedMult = 12
    /\ \E i \in Renders : Pressure3(calls[i]) = <<2048, 0, 500>>

\* the widths a segment over `points` has with multiplier m: start, ctrl, end
ClaimedWidths(points, m) ==
    LET r == [j \in 1..3 |-> (m * points[j].pressure * RadiusScale) \div 4096]
    IN <<r[3] + r[2], 2 * r[2], r[2] + r[1]>>

WidthsOf(call) == <<call.start.width, call.ctrl.width, call.end.width>>

\* C11: in basic_draw, while the eraser end is the active tool, the segments a
\* Draw renders are WHITE.
C11_BasicRubberErases ==
    (program = "basic_draw" /\ tool_rubber) =>
        \A i \in Renders : calls[i].color = WHITE

\* C12: an in-canvas Draw that finds the window [a, b] renders exactly one
\* segment, from (a, b, new), and leaves [b, new]; one that finds 0 or 1
\* samples renders nothing and only appends.
C12_OneSegmentPerThirdSample ==
    [][InsideDraw(event') =>
         LET new == [position |-> event'.position, pressure |-> event'.pressure,
                     stale |-> FALSE]
         IN IF Len(WACOM_HISTORY) = 2
            THEN /\ Len(calls') = 2
                 /\ calls'[1].fn = "draw_dynamic_bezier"
                 /\ calls'[2].fn = "partial_refresh"
                 /\ calls'[1].points = <<WACOM_HISTORY[1], WACOM_HISTORY[2], new>>
                 /\ WACOM_HISTORY' = <<WACOM_HISTORY[2], new>>
            ELSE /\ calls' = << >>
                 /\ WACOM_HISTORY' = WACOM_HISTORY \o <<new>>]_vars

\* a Draw found two different samples, rendered one segment and kept the newer
C12_Witness ==
    /\ program = "main" /\ InsideDraw(event) /\ event.pre.window = 2
    /\ Renders = {1}
    /\ calls[1].points[1] # calls[1].points[2]
    /\ calls[1].points[2] # calls[1].points[3]
    /\ WACOM_HISTORY = <<calls[1].points[2], calls[1].points[3]>>

\* C13: an outside Draw always leaves UNPRESS_OBSERVED false; with the flag set
\* and no element under the pen nothing is called and the flag is consumed;
\* with the flag unset nothing is called; the flag is false initially and,
\* once false, stays false until a Hover(distance > 1).
C13_OutsideDrawConsumesFlag ==
    program = "main" =>
        /\ event.type = "none" => ~UNPRESS_OBSERVED
        /\ OutsideDraw(event) =>
             /\ ~UNPRESS_OBSERVED
             /\ ~event.pre.observed => calls = << >>
             /\ find_active_region(event.position.y, event.position.x) = NoElement
                  => calls = << >>
        /\ (event.type # "none" /\ ~FarHover(event) /\ ~event.pre.observed)
             => ~UNPRESS_OBSERVED

\* a pending activation was dropped on a position with no element
C13_Witness ==
    /\ program = "main" /\ OutsideDraw(event) /\ event.pre.observed
    /\ find_active_region(event.position.y, event.position.x) = NoElement
    /\ calls = << >> /\ ~UNPRESS_OBSERVED

\* C14 as claimed: with the rubber side active the color and the multiplier of
\* a segment are the same whatever the stored mode is: the segment has the
\* color and the widths it would have under Draw(w) and under Erase(w).
C14_RubberIgnoresStoredMode ==
    (program = "main" /\ WACOM_RUBBER_SIDE) =>
        \A i \in Renders :
            \A m \in {Draw(G_DRAW_MODE.size), Erase(G_DRAW_MODE.size)} :
                /\ calls[i].color = ColMult(m, TRUE).col
                /\ WidthsOf(calls[i]) =
                       ClaimedWidths(calls[i].points, ColMult(m, TRUE).mult)

\* C14 as amended: with the rubber side active the multiplier is 50 whatever
\* the stored mode is, and the color is the stored mode's color inverted:
\* WHITE under Draw(w), BLACK under Erase(w).
C14_RubberFixesWidthInvertsColor ==
    (program = "main" /\ WACOM_RUBBER_SIDE) =>
        \A i \in Renders :
            /\ calls[i].color = IF G_DRAW_MODE.kind = "Draw" THEN WHITE ELSE BLACK
            /\ WidthsOf(calls[i]) = ClaimedWidths(calls[i].points, 50)

\* a segment rendered with the rubber side over Erase(7)
C14_Witness ==
    /\ program = "main" /\ WACOM_RUBBER_SIDE /\ G_DRAW_MODE = Erase(7)
    /\ Renders # {} /\ calls[1].color = BLACK

\* C15: with the rubber side not active, Draw(w) renders BLACK with multiplier
\* w and Erase(w) renders WHITE with multiplier 3*w; the mode in force when the
\* newest sample arrives decides all three radii.
C15_ModeDecidesColorAndWidth ==
    (program = "main" /\ ~WACOM_RUBBER_SIDE) =>
        \A i \in Renders :
            /\ G_DRAW_MODE.kind = "Draw" =>
                 /\ calls[i].color = BLACK
                 /\ WidthsOf(calls[i]) =
                        ClaimedWidths(calls[i].points, G_DRAW_MODE.size)
            /\ G_DRAW_MODE.kind = "Erase" =>
                 /\ calls[i].color = WHITE
                 /\ WidthsOf(calls[i]) =
                        ClaimedWidths(calls[i].points, 3 * G_DRAW_MODE.size)

\* a segment rendered in Erase(99) with the pen side
C15_Witness ==
    /\ program = "main" /\ ~WACOM_RUBBER_SIDE /\ G_DRAW_MODE = Erase(99)
    /\ Renders # {} /\ calls[1].color = WHITE

\* C16: in main a Hover with distance 0 or 1 changes nothing (window, pending
\* activation, range flag, rubber flag, mode) and calls nothing; a Hover with
\* distance > 1 clears the window and sets the pending activation.
C16_NearHoverChangesNothing ==
    [][(program = "main" /\ event'.type = "Hover") =>
         /\ calls' = << >>
         /\ UNCHANGED <<G_DRAW_MODE, WACOM_IN_RANGE, WACOM_RUBBER_SIDE, panicked>>
         /\ IF event'.distance <= 1
            THEN UNCHANGED <<WACOM_HISTORY, UNPRESS_OBSERVED>>
            ELSE WACOM_HISTORY' = << >> /\ UNPRESS_OBSERVED' = TRUE]_vars

\* a Hover at distance 1 left a full window and an unset flag as they were
C16_Witness ==
    /\ program = "main" /\ event.type = "Hover" /\ event.distance = 1
    /\ Len(WACOM_HISTORY) = 2 /\ ~UNPRESS_OBSERVED /\ event.pre.window = 2

\* C17: in basic_draw the window is empty after every contact loss: Touch with
\* state false, or the pen (either end) leaving range.
C17_BasicLiftClearsWindow ==
    (/\ program = "basic_draw"
     /\ event.type = "InstrumentChange"
     /\ event.pen \in {"Touch", "ToolPen", "ToolRubber"}
     /\ ~event.state)
        => WACOM_HISTORY = << >>

\* C18: in main an InstrumentChange with a pen other than ToolPen, ToolRubber
\* and Touch panics and leaves the range flag, the rubber flag, the window and
\* the pending activation as they were; a WacomEvent of another variant changes
\* nothing and raises no error.
C18_UnknownPenPanics ==
    [][program = "main" =>
         /\ (event'.type = "InstrumentChange"
               /\ event'.pen \notin {"ToolPen", "ToolRubber", "Touch"})
              => /\ panicked'
                 /\ UNCHANGED <<WACOM_IN_RANGE, WACOM_RUBBER_SIDE, WACOM_HISTORY,
                                UNPRESS_OBSERVED, G_DRAW_MODE>>
         /\ event'.type = "Unknown"
              => /\ ~panicked' /\ calls' = << >>
                 /\ UNCHANGED <<WACOM_IN_RANGE, WACOM_RUBBER_SIDE, WACOM_HISTORY,
                                UNPRESS_OBSERVED, G_DRAW_MODE>>
         /\ panicked => UNCHANGED vars]_vars

\* the pen button arrived with Touch cleared, mid-stroke, with everything set
C18_Witness ==
    /\ program = "main" /\ panicked
    /\ event.type = "InstrumentChange" /\ event.pen = "Stylus" /\ ~event.state
    /\ Len(WACOM_HISTORY) = 2 /\ UNPRESS_OBSERVED
    /\ WACOM_IN_RANGE /\ WACOM_RUBBER_SIDE

\* C19: a button Press while WACOM_IN_RANGE is true triggers nothing, an
\* Unpress never triggers anything, and WACOM_IN_RANGE is the state of the most
\* recent ToolPen or ToolRubber InstrumentChange (false before the first).
C19_InRangePressIgnored ==
    [][program = "main" =>
         /\ (event'.type = "GPIO"
               /\ (event'.kind = "Unpress"
                     \/ (event'.kind = "Press" /\ WACOM_IN_RANGE)))
              => calls' = << >> /\ ~exited'
         /\ IF event'.type = "InstrumentChange"
                 /\ event'.pen \in {"ToolPen", "ToolRubber"}
            THEN WACOM_IN_RANGE' = event'.state
            ELSE WACOM_IN_RANGE' = WACOM_IN_RANGE
         /\ event.type = "none" => ~WACOM_IN_RANGE]_vars

\* the power button was pressed with the pen in range, and nothing happened
C19_Witness ==
    /\ program = "main" /\ event.type = "GPIO" /\ event.kind = "Press"
    /\ event.button = "POWER" /\ WACOM_IN_RANGE
    /\ calls = << >> /\ ~exited

\* C20: on_toggle_eraser and the other updates of G_DRAW_MODE are atomic: when
\* they interleave across threads no update is lost, so once no thread is
\* inside an update the mode is the one all the updates applied one by one give.
C20_NoLostUpdate ==
    (\A t \in Threads : new_mode[t] = Idle) => G_DRAW_MODE = applied

\* C21: in main UNPRESS_OBSERVED is set only by a Hover with distance > 1 and
\* cleared only by an out-of-canvas Draw, which always consumes it; in-canvas
\* Draws and InstrumentChanges (Touch included) leave it as it is; and the
\* handler activations never outnumber the Hovers with distance > 1.
C21_ActivationsWithinHovers ==
    /\ [](activations <= hovers)
    /\ [][program = "main" =>
            /\ (~UNPRESS_OBSERVED /\ UNPRESS_OBSERVED') => FarHover(event')
            /\ (UNPRESS_OBSERVED /\ ~UNPRESS_OBSERVED') => OutsideDraw(event')
            /\ (InsideDraw(event') \/ event'.type = "InstrumentChange")
                 => UNCHANGED UNPRESS_OBSERVED
            /\ OutsideDraw(event') => ~UNPRESS_OBSERVED']_vars

\* after a hover and a tap that activated, a second hover's flag is still set
\* at the end of a rendered in-canvas stroke
C21_Witness ==
    /\ program = "main" /\ hovers = 2 /\ activations = 1
    /\ InsideDraw(event) /\ Renders # {} /\ event.pre.observed
    /\ UNPRESS_OBSERVED

====
